---- MODULE Spec2Model ----
(***************************************************************************)
(* Model of viajes/forms.py: the five Django forms of the trip-management  *)
(* application (RegistroForm, EditarUsuarioForm, GuiaForm, PilotoForm,     *)
(* ViajeForm).                                                             *)
(*                                                                         *)
(* Text is a sequence of Unicode code points, so that Python's str         *)
(* methods (strip, lower, capitalize, the ordering used by sorted) are     *)
(* computed, not assumed.  Code points used below:                         *)
(*   32 ' '   46 '.'   64 '@'   65 'A'   66 'B'   67 'C'   78 'N'          *)
(*   97 'a'   98 'b'   110 'n'  111 'o'                                    *)
(*   329 U+0149 (n preceded by apostrophe)   700 U+02BC (modifier          *)
(*   apostrophe)                                                           *)
(***************************************************************************)
EXTENDS Integers, Sequences, FiniteSets, TLC

VARIABLES
    \* ---- pure text normalisation (SpecTexto)
    texto,        \* the current value of a name / username
    previo,       \* the value before the last normalisation
    pasadas,      \* how many times the value has been normalised
    modo,         \* which normaliser is applied: "capitalize" or "lower"
    \* ---- GuiaForm / ViajeForm construction (Spec)
    guias,        \* ids of the Guia records of the persistence layer
    guia_blank,   \* model schema: Viaje.guia may be left empty
    form,         \* the form object produced by the last construction
    \* ---- PilotoForm construction and validation (SpecPiloto, SpecAvatar)
    avatars_dir,  \* static/avatars as os.listdir sees it
    piloto,       \* outcome of the last PilotoForm(...) call
    pilotoPrev,   \* outcome of the PilotoForm(...) call before it
    avatarResult, \* outcome of the last is_valid() on the PilotoForm
    \* ---- RegistroForm / EditarUsuarioForm validation (SpecUsuario)
    users,        \* usernames of the User records already stored
    enviado,      \* the submission bound to the form
    resultado,    \* outcome of full_clean() on it
    guardado      \* what save() handed to the persistence layer

vars == <<texto, previo, pasadas, modo, guias, guia_blank, form,
          avatars_dir, piloto, pilotoPrev, avatarResult,
          users, enviado, resultado, guardado>>

textoVars   == <<texto, previo, pasadas, modo>>
viajeVars   == <<guias, guia_blank, form>>
pilotoVars  == <<avatars_dir, piloto, pilotoPrev, avatarResult>>
usuarioVars == <<users, enviado, resultado, guardado>>

None == "None"

(***************************************************************************)
(* Bounds                                                                  *)
(***************************************************************************)
MaxLen == 2         \* longest text drawn for the pure normalisers
MaxPasadas == 2     \* how many times a value is fed back to a normaliser

(***************************************************************************)
(* Python str semantics                                                    *)
(***************************************************************************)
Alphabet == {32, 65, 97, 78, 110, 329, 700}

Strs == UNION {[1..n -> Alphabet] : n \in 0..MaxLen}

\* str.isspace for one character
IsSpace(c) == c \in {9, 10, 13, 32}

\* Unicode lower-case mapping of one character
ToLower(c) == IF c \in 65..90 THEN c + 32 ELSE c

\* Unicode title-case mapping of one character: U+0149 has the two-character
\* mapping U+02BC U+004E (SpecialCasing.txt)
ToTitle(c) ==
    IF c \in 97..122 THEN <<c - 32>>
    ELSE IF c = 329 THEN <<700, 78>>
    ELSE <<c>>

\* str.lower()
lower(s) == [i \in 1..Len(s) |-> ToLower(s[i])]

\* str.capitalize(): first character title-cased, the rest lower-cased
capitalize(s) ==
    IF s = <<>> THEN <<>> ELSE ToTitle(s[1]) \o lower(Tail(s))

RECURSIVE lstrip(_)
lstrip(s) ==
    IF s # <<>> /\ IsSpace(s[1]) THEN lstrip(Tail(s)) ELSE s

RECURSIVE rstrip(_)
rstrip(s) ==
    IF s # <<>> /\ IsSpace(s[Len(s)]) THEN rstrip(SubSeq(s, 1, Len(s) - 1)) ELSE s

\* str.strip()
strip(s) == rstrip(lstrip(s))

(***************************************************************************)
(* SpecTexto: the normalisers of RegistroForm / EditarUsuarioForm applied  *)
(* to a value and then to their own output.                                *)
(***************************************************************************)
InitTexto ==
    /\ texto \in Strs
    /\ previo = texto
    /\ pasadas = 0
    /\ modo \in {"capitalize", "lower"}

Capitalizar ==
    /\ modo = "capitalize"
    /\ pasadas < MaxPasadas
    /\ previo' = texto
    /\ texto' = capitalize(texto)
    /\ pasadas' = pasadas + 1
    /\ UNCHANGED <<modo, viajeVars, pilotoVars, usuarioVars>>

Minusculas ==
    /\ modo = "lower"
    /\ pasadas < MaxPasadas
    /\ previo' = texto
    /\ texto' = lower(texto)
    /\ pasadas' = pasadas + 1
    /\ UNCHANGED <<modo, viajeVars, pilotoVars, usuarioVars>>

(***************************************************************************)
(* Django form objects.  A form is its class, the ordered names of its     *)
(* fields (self.fields is an ordered dict) and the field of each name.  A  *)
(* field carries its widget class, the widget's attrs dict (the entries    *)
(* forms.py itself puts there), its label, whether it is required, its     *)
(* choices, and for a model-choice field its empty_label.                  *)
(***************************************************************************)
NoForm == [cls |-> "None"]

Attrs0 == [k \in {} |-> ""]

\* d[k] = v on a dict
SetItem(d, k, v) == [x \in DOMAIN d \cup {k} |-> IF x = k THEN v ELSE d[x]]

\* Django's default form widget for each kind of model field
\* (Field.formfield / forms.fields: never a CheckboxSelectMultiple).
DefaultWidget(kind) ==
    CASE kind = "text"    -> "TextInput"
      [] kind = "email"   -> "EmailInput"
      [] kind = "date"    -> "DateInput"
      [] kind = "integer" -> "NumberInput"
      [] kind = "choice"  -> "Select"
      [] kind = "fk"      -> "Select"
      [] kind = "m2m"     -> "SelectMultiple"
      [] kind = "boolean" -> "CheckboxInput"
      [] kind = "file"    -> "ClearableFileInput"

\* A form field built from a model field of the given kind.
FormField(name, kind, required) ==
    [ widget      |-> DefaultWidget(kind),
      attrs       |-> Attrs0,
      label       |-> name,
      required    |-> required,
      choices     |-> <<>>,
      queryset    |-> kind \in {"fk", "m2m"},
      empty_label |-> IF kind = "fk" THEN "---------" ELSE None ]

\* Meta.widgets / a declared field: the widget class and its attrs replaced
WithWidget(f, widget, attrs) == [f EXCEPT !.widget = widget, !.attrs = attrs]

\* field.widget.attrs[k] = v
SetAttr(f, k, v) == [f EXCEPT !.attrs = SetItem(f.attrs, k, v)]

Range(seq) == {seq[i] : i \in 1..Len(seq)}

\* A slip: the key popped and put back, which moves it to the end.
SetField_moved(frm, name, f) ==
    [ frm EXCEPT !.order  = SelectSeq(frm.order, LAMBDA n : n # name) \o <<name>>,
                 !.fields = SetItem(frm.fields, name, f) ]

\* self.fields[name] = f: an existing key keeps its place, a new key goes last
SetField(frm, name, f) ==
    [ frm EXCEPT !.order  = IF name \in Range(frm.order) THEN frm.order
                            ELSE Append(frm.order, name),
                 !.fields = SetItem(frm.fields, name, f) ]

(***************************************************************************)
(* GuiaForm                                                                *)
(***************************************************************************)
GuiaMetaFields ==
    <<"nombre", "apellido", "email", "dni", "telefono", "fecha_nac",
      "ciudad", "pais", "sobre_mi", "foto">>

\* The Guia model: the kind of each column.
GuiaSchema ==
    [ n \in Range(GuiaMetaFields) |->
        CASE n = "email"     -> "email"
          [] n = "fecha_nac" -> "date"
          [] n = "foto"      -> "file"
          [] OTHER           -> "text" ]

\* The class body of GuiaForm: the fields before __init__ touches them.
GuiaBaseFields ==
    [ n \in Range(GuiaMetaFields) |->
        CASE n = "fecha_nac" ->
               [ WithWidget(FormField(n, "date", FALSE), "DateInput",
                            [k \in {"type"} |-> "date"])
                 EXCEPT !.label = "Fecha de nacimiento" ]
          [] n = "sobre_mi" ->
               WithWidget(FormField(n, "text", FALSE), "Textarea",
                          [k \in {"rows"} |-> "4"])
          [] OTHER -> FormField(n, GuiaSchema[n], n \notin {"foto"}) ]

\* GuiaForm.__init__
GuiaForm_init ==
    [ cls    |-> "GuiaForm",
      order  |-> GuiaMetaFields,
      fields |-> [ n \in Range(GuiaMetaFields) |->
                     SetAttr(GuiaBaseFields[n], "class", "form-control") ] ]

(***************************************************************************)
(* ViajeForm                                                               *)
(***************************************************************************)
ViajeMetaFields ==
    <<"nombre", "detalle", "fecha_salida", "cant_dias", "km", "dificultad",
      "guia", "pilotos", "activo", "max_pilotos">>

\* The Viaje model: the kind of each column.
ViajeSchema ==
    [ n \in Range(ViajeMetaFields) |->
        CASE n \in {"nombre", "detalle"}              -> "text"
          [] n = "fecha_salida"                        -> "date"
          [] n \in {"cant_dias", "km", "max_pilotos"}  -> "integer"
          [] n = "dificultad"                          -> "choice"
          [] n = "guia"                                -> "fk"
          [] n = "pilotos"                             -> "m2m"
          [] n = "activo"                              -> "boolean" ]

\* ViajeForm.Meta: the model's fields, with Meta.widgets for two of them.
ViajeBaseFields(blank) ==
    [ n \in Range(ViajeMetaFields) |->
        CASE n = "fecha_salida" ->
               WithWidget(FormField(n, "date", TRUE), "DateInput",
                          [k \in {"type"} |-> "date"])
          [] n = "detalle" ->
               WithWidget(FormField(n, "text", TRUE), "Textarea",
                          [k \in {"rows"} |-> "4"])
          [] n = "guia"    -> FormField(n, "fk", ~blank)
          [] n = "pilotos" -> FormField(n, "m2m", FALSE)
          [] n = "activo"  -> FormField(n, "boolean", FALSE)
          [] OTHER         -> FormField(n, ViajeSchema[n], TRUE) ]

\* The styling loop of ViajeForm.__init__ on one field
ViajeStyle(f) ==
    IF f.widget # "CheckboxSelectMultiple"
    THEN SetAttr(f, "class", "form-control")
    ELSE f

\* A slip in the label choice: the two branches exchanged.
ViajeGuiaLabel_swapped(f, exists) ==
    IF f.queryset
    THEN [f EXCEPT !.empty_label = IF exists THEN "Aún sin asignar"
                                   ELSE "Seleccione una guía"]
    ELSE f

\* The guia block of ViajeForm.__init__: the empty label by queryset.exists()
ViajeGuiaLabel(f, exists) ==
    IF f.queryset
    THEN [f EXCEPT !.empty_label = IF ~exists THEN "Aún sin asignar"
                                   ELSE "Seleccione una guía"]
    ELSE f

\* The ChoiceField that replaces self.fields['activo']
ViajeActivoField ==
    [ widget      |-> "Select",
      attrs       |-> [k \in {"class"} |-> "form-control"],
      label       |-> "Estado",
      required    |-> TRUE,
      choices     |-> << <<TRUE, "Activo">>, <<FALSE, "Borrador">> >>,
      queryset    |-> FALSE,
      empty_label |-> None ]

\* ViajeForm.__init__, given whether Guia.objects has any row
ViajeForm_init(exists, blank) ==
    LET base   == ViajeBaseFields(blank)
        styled == [n \in DOMAIN base |-> ViajeStyle(base[n])]
        ided   == [styled EXCEPT !["pilotos"] = SetAttr(@, "id", "id_pilotos")]
        lab    == [ided EXCEPT !["km"].label = "Kilómetros",
                               !["max_pilotos"].label = "Máxima cantidad de pilotos"]
        guia   == [lab EXCEPT !["guia"] = ViajeGuiaLabel(@, exists)]
        f0     == [cls |-> "ViajeForm", order |-> ViajeMetaFields, fields |-> guia]
    IN  SetField(f0, "activo", ViajeActivoField)

(***************************************************************************)
(* Spec: guide records come and go; GuiaForm and ViajeForm are built.      *)
(***************************************************************************)
MaxGuias == 3

GuiaIds == 1..MaxGuias

InitViaje ==
    /\ guias = {}
    /\ guia_blank \in BOOLEAN
    /\ form = NoForm

\* The persistence layer stores a guide.
SaveGuia(g) ==
    /\ g \notin guias
    /\ guias' = guias \cup {g}
    /\ UNCHANGED <<guia_blank, form, textoVars, pilotoVars, usuarioVars>>

\* The persistence layer deletes a guide.
DeleteGuia(g) ==
    /\ g \in guias
    /\ guias' = guias \ {g}
    /\ UNCHANGED <<guia_blank, form, textoVars, pilotoVars, usuarioVars>>

\* GuiaForm(...)
NewGuiaForm ==
    /\ form' = GuiaForm_init
    /\ UNCHANGED <<guias, guia_blank, textoVars, pilotoVars, usuarioVars>>

\* ViajeForm(...); built_with records the guide rows present at that moment
NewViajeForm ==
    /\ form' = [ cls        |-> "ViajeForm",
                 order      |-> ViajeForm_init(guias # {}, guia_blank).order,
                 fields     |-> ViajeForm_init(guias # {}, guia_blank).fields,
                 built_with |-> guias ]
    /\ UNCHANGED <<guias, guia_blank, textoVars, pilotoVars, usuarioVars>>

NextViaje ==
    \/ \E g \in GuiaIds : SaveGuia(g)
    \/ \E g \in GuiaIds : DeleteGuia(g)
    \/ NewGuiaForm
    \/ NewViajeForm

(***************************************************************************)
(* PilotoForm                                                              *)
(***************************************************************************)
MaxFiles == 3       \* most files the avatars directory holds

\* "<stem>.png"
Png(stem) == stem \o <<46, 112, 110, 103>>

\* The file names that may appear in static/avatars:
\* "b.png", "a.png", "C.png", "ab.png"
FileNames == {Png(<<98>>), Png(<<97>>), Png(<<67>>), Png(<<97, 98>>)}

\* Python's str < str: code point by code point, a proper prefix first
RECURSIVE StrLess(_, _)
StrLess(a, b) ==
    IF b = <<>> THEN FALSE
    ELSE IF a = <<>> THEN TRUE
    ELSE IF a[1] # b[1] THEN a[1] < b[1]
    ELSE StrLess(Tail(a), Tail(b))

\* A slip in the ordering: compared as if by key=str.lower
StrLess_casefold(a, b) == StrLess(lower(a), lower(b))

\* The comparison sorted() makes between two file names
NameLess(a, b) == StrLess(a, b)

\* x put into an ascending list, after the elements that are not greater
\* (sorted() is stable)
RECURSIVE Insert(_, _)
Insert(x, seq) ==
    IF seq = <<>> THEN <<x>>
    ELSE IF NameLess(x, seq[1]) THEN <<x>> \o seq
    ELSE <<seq[1]>> \o Insert(x, Tail(seq))

\* sorted(names)
RECURSIVE sorted(_)
sorted(names) ==
    IF names = <<>> THEN <<>>
    ELSE Insert(names[Len(names)], sorted(SubSeq(names, 1, Len(names) - 1)))

PilotoMetaFields ==
    <<"telefono", "fecha_nac", "ciudad", "pais", "sobre_mi", "moto", "avatar">>

\* The class body of PilotoForm: the fields before __init__ touches them.
PilotoBaseFields ==
    [ n \in Range(PilotoMetaFields) |->
        CASE n = "fecha_nac" ->
               [ WithWidget(FormField(n, "date", FALSE), "DateInput",
                            [k \in {"type"} |-> "date"])
                 EXCEPT !.label = "Fecha de nacimiento" ]
          [] n = "sobre_mi" ->
               WithWidget(FormField(n, "text", FALSE), "Textarea",
                          [k \in {"rows"} |-> "4"])
          [] n = "avatar" ->
               WithWidget(FormField(n, "choice", TRUE), "RadioSelect", Attrs0)
          [] OTHER -> FormField(n, "text", TRUE) ]

\* A slip: the listing failure swallowed and an empty choice list used.
PilotoForm_init_suppressed(dir) ==
    [ raised |-> None,
      form   |-> [ cls    |-> "PilotoForm",
                   order  |-> PilotoMetaFields,
                   fields |-> [ PilotoBaseFields EXCEPT !["avatar"].choices =
                                  IF dir.ok
                                  THEN [i \in 1..Len(dir.names) |->
                                          <<sorted(dir.names)[i], sorted(dir.names)[i]>>]
                                  ELSE <<>> ] ] ]

\* A slip: the styling loop of GuiaForm copied into PilotoForm.
PilotoFields_styled(avatars) ==
    [ n \in Range(PilotoMetaFields) |->
        SetAttr([PilotoBaseFields EXCEPT !["avatar"].choices =
                   [i \in 1..Len(avatars) |-> <<avatars[i], avatars[i]>>]][n],
                "class", "form-control") ]

\* self.fields after PilotoForm.__init__ has set the avatar choices
PilotoFields(avatars) ==
    [ PilotoBaseFields EXCEPT !["avatar"].choices =
        [i \in 1..Len(avatars) |-> <<avatars[i], avatars[i]>>] ]

\* PilotoForm.__init__: os.listdir raises OSError when the directory cannot
\* be listed, and nothing catches it
PilotoForm_init(dir) ==
    IF ~dir.ok
    THEN [ raised |-> "OSError", form |-> NoForm ]
    ELSE [ raised |-> None,
           form   |-> [ cls    |-> "PilotoForm",
                        order  |-> PilotoMetaFields,
                        fields |-> PilotoFields(sorted(dir.names)) ] ]

\* A slip: the field declared with required=False.
avatar_clean_optional(choices, data) ==
    LET value == IF data.present THEN data.value ELSE <<>>
    IN  IF value = <<>>
        THEN [ error |-> None, value |-> <<>> ]
        ELSE IF value \notin {choices[i][1] : i \in 1..Len(choices)}
        THEN [ error |-> "invalid_choice", value |-> <<>> ]
        ELSE [ error |-> None, value |-> value ]

\* ChoiceField.clean for the declared avatar field (required by default):
\* an empty or missing value is 'required', any other value outside the
\* choices is 'invalid_choice'
avatar_clean(choices, data) ==
    LET value == IF data.present THEN data.value ELSE <<>>
    IN  IF value = <<>>
        THEN [ error |-> "required", value |-> <<>> ]
        ELSE IF value \notin {choices[i][1] : i \in 1..Len(choices)}
        THEN [ error |-> "invalid_choice", value |-> <<>> ]
        ELSE [ error |-> None, value |-> value ]

\* The listings os.listdir may return: distinct names, in any order
Listings ==
    { l \in UNION {[1..n -> FileNames] : n \in 0..MaxFiles} :
        \A i, j \in 1..Len(l) : i # j => l[i] # l[j] }

NoOutcome == [raised |-> None, form |-> NoForm, listing |-> <<>>, dir_ok |-> TRUE]

NoResult == [error |-> None, value |-> <<>>, data |-> [present |-> FALSE, value |-> <<>>],
             done |-> FALSE]

\* A file appears in the directory, anywhere in the listing order.
AddAvatar(name, pos) ==
    /\ avatars_dir.ok
    /\ Len(avatars_dir.names) < MaxFiles
    /\ name \notin Range(avatars_dir.names)
    /\ pos \in 0..Len(avatars_dir.names)
    /\ avatars_dir' = [avatars_dir EXCEPT !.names =
                         SubSeq(@, 1, pos) \o <<name>> \o SubSeq(@, pos + 1, Len(@))]
    /\ UNCHANGED <<piloto, pilotoPrev, avatarResult, textoVars, viajeVars, usuarioVars>>

\* A file is removed from the directory.
RemoveAvatar(pos) ==
    /\ avatars_dir.ok
    /\ pos \in 1..Len(avatars_dir.names)
    /\ avatars_dir' = [avatars_dir EXCEPT !.names =
                         SubSeq(@, 1, pos - 1) \o SubSeq(@, pos + 1, Len(@))]
    /\ UNCHANGED <<piloto, pilotoPrev, avatarResult, textoVars, viajeVars, usuarioVars>>

\* The directory is removed, or created again (empty).
ToggleDir ==
    /\ avatars_dir' = [ok |-> ~avatars_dir.ok, names |-> <<>>]
    /\ UNCHANGED <<piloto, pilotoPrev, avatarResult, textoVars, viajeVars, usuarioVars>>

\* PilotoForm(...): the outcome is kept with the listing it was built from
NewPilotoForm ==
    /\ piloto' = [ raised  |-> PilotoForm_init(avatars_dir).raised,
                   form    |-> PilotoForm_init(avatars_dir).form,
                   listing |-> avatars_dir.names,
                   dir_ok  |-> avatars_dir.ok ]
    /\ pilotoPrev' = piloto
    /\ avatarResult' = NoResult
    /\ UNCHANGED <<avatars_dir, textoVars, viajeVars, usuarioVars>>

\* form.is_valid() on a bound PilotoForm: the avatar field's cleaning
CleanAvatar(data) ==
    /\ piloto.form.cls = "PilotoForm"
    /\ avatarResult' =
         [ error |-> avatar_clean(piloto.form.fields["avatar"].choices, data).error,
           value |-> avatar_clean(piloto.form.fields["avatar"].choices, data).value,
           data  |-> data,
           done  |-> TRUE ]
    /\ UNCHANGED <<avatars_dir, piloto, pilotoPrev, textoVars, viajeVars, usuarioVars>>

AvatarInputs ==
    {[present |-> FALSE, value |-> <<>>]}
    \cup {[present |-> TRUE, value |-> v] : v \in FileNames \cup {<<>>, <<32>>}}

InitPiloto ==
    /\ avatars_dir = [ok |-> TRUE, names |-> <<>>]
    /\ piloto = NoOutcome
    /\ pilotoPrev = NoOutcome
    /\ avatarResult = NoResult

InitAvatar ==
    /\ avatars_dir \in {[ok |-> TRUE, names |-> l] : l \in Listings}
    /\ piloto = NoOutcome
    /\ pilotoPrev = NoOutcome
    /\ avatarResult = NoResult

NextPiloto ==
    \/ \E name \in FileNames, pos \in 0..MaxFiles : AddAvatar(name, pos)
    \/ \E pos \in 1..MaxFiles : RemoveAvatar(pos)
    \/ ToggleDir
    \/ NewPilotoForm

NextAvatar ==
    \/ NewPilotoForm
    \/ \E data \in AvatarInputs : CleanAvatar(data)

(***************************************************************************)
(* Form validation (BaseForm.full_clean): _clean_fields visits the fields  *)
(* in order; each field's own clean() runs first, then the form's          *)
(* clean_<name> hook on the value it left in cleaned_data; a               *)
(* ValidationError goes to errors and takes the field out of cleaned_data; *)
(* _post_clean then runs the model's and the password validators' checks.  *)
(***************************************************************************)
MaxNameLength == 30        \* RegistroForm: max_length of first_name / last_name
UserNameLength == 150      \* auth.User: max_length of username, first_name, last_name

EmptyDict == [k \in {} |-> <<>>]

\* dict.get(k, default)
Get(d, k, default) == IF k \in DOMAIN d THEN d[k] ELSE default

\* del d[k] when present
DelItem(d, k) == [x \in DOMAIN d \ {k} |-> d[x]]

CleanState0 == [cleaned_data |-> EmptyDict, errors |-> EmptyDict, trace |-> <<>>]

\* Form.add_error(field, code)
AddError(st, field, code) ==
    [ st EXCEPT !.errors = SetItem(@, field, Get(@, field, <<>>) \o <<code>>),
                !.cleaned_data = DelItem(@, field) ]

\* cleaned_data[field] = value
Put(st, field, value) == [st EXCEPT !.cleaned_data = SetItem(@, field, value)]

\* the step is recorded as executed
Log(st, step) == [st EXCEPT !.trace = Append(@, step)]

Ok(v) == [error |-> None, value |-> v]

Err(code) == [error |-> code, value |-> <<>>]

\* forms.CharField.clean: the value is stripped unless strip=False, an empty
\* value fails when the field is required, a long one when max_length is set
\* (max_length 0 stands for no limit)
CharField_clean(raw, required, max_length, do_strip) ==
    LET v == IF do_strip THEN strip(raw) ELSE raw
    IN  IF v = <<>> THEN (IF required THEN Err("required") ELSE Ok(<<>>))
        ELSE IF max_length > 0 /\ Len(v) > max_length THEN Err("max_length")
        ELSE Ok(v)

\* Characters UnicodeUsernameValidator accepts: \w and . @ + -
UsernameChar(c) ==
    c \in (48..57) \cup (65..90) \cup (97..122) \cup {95, 46, 64, 43, 45, 329, 700}

\* The username field of auth.User as a form field
username_clean(raw) ==
    LET r == CharField_clean(raw, TRUE, UserNameLength, TRUE)
    IN  IF r.error # None THEN r
        ELSE IF \E i \in 1..Len(r.value) : ~UsernameChar(r.value[i]) THEN Err("invalid")
        ELSE r

\* EmailValidator, reduced to: one '@', a user part, a dotted domain
EmailOk(v) ==
    \E i \in 2..Len(v) - 1 :
        /\ v[i] = 64
        /\ \A j \in 1..Len(v) : v[j] = 64 => j = i
        /\ \A j \in 1..Len(v) : ~IsSpace(v[j])
        /\ \E j \in i + 2..Len(v) - 1 : v[j] = 46

\* forms.EmailField.clean
EmailField_clean(raw, required) ==
    LET r == CharField_clean(raw, required, 0, TRUE)
    IN  IF r.error # None \/ r.value = <<>> THEN r
        ELSE IF ~EmailOk(r.value) THEN Err("invalid")
        ELSE r

\* The passwords the configured password validators reject.
WeakPasswords == {<<97>>}

(***************************************************************************)
(* RegistroForm                                                            *)
(***************************************************************************)
RegistroFields ==
    <<"username", "first_name", "last_name", "email", "password1", "password2">>

\* A slip: the name returned as entered.
RegistroForm_clean_first_name_asis(cleaned_data) ==
    Get(cleaned_data, "first_name", <<>>)

\* RegistroForm.clean_first_name
RegistroForm_clean_first_name(cleaned_data) ==
    capitalize(Get(cleaned_data, "first_name", <<>>))

\* RegistroForm.clean_last_name
RegistroForm_clean_last_name(cleaned_data) ==
    capitalize(Get(cleaned_data, "last_name", <<>>))

\* RegistroForm.clean_username
RegistroForm_clean_username(cleaned_data) ==
    lower(Get(cleaned_data, "username", <<>>))

\* One field of RegistroForm cleaned by its own field class.
RegistroField_clean(name, raw) ==
    CASE name = "username"  -> username_clean(raw)
      [] name \in {"first_name", "last_name"} ->
                               CharField_clean(raw, TRUE, MaxNameLength, TRUE)
      [] name = "email"     -> EmailField_clean(raw, TRUE)
      [] name \in {"password1", "password2"} ->
                               CharField_clean(raw, TRUE, 0, FALSE)

\* The clean_<name> hook RegistroForm defines or inherits for a field; the
\* inherited clean_password2 raises when the two passwords differ.
RegistroHook(st, name) ==
    CASE name = "username" ->
           Log(Put(st, name, RegistroForm_clean_username(st.cleaned_data)),
               "clean_username")
      [] name = "first_name" ->
           Log(Put(st, name, RegistroForm_clean_first_name(st.cleaned_data)),
               "clean_first_name")
      [] name = "last_name" ->
           Log(Put(st, name, RegistroForm_clean_last_name(st.cleaned_data)),
               "clean_last_name")
      [] name = "password2" ->
           IF /\ "password1" \in DOMAIN st.cleaned_data
              /\ st.cleaned_data["password1"] # st.cleaned_data["password2"]
           THEN Log(AddError(st, name, "password_mismatch"), "clean_password2")
           ELSE Log(st, "clean_password2")
      [] OTHER -> st

\* One turn of the loop of _clean_fields for RegistroForm
RegistroCleanField(st, name, raw) ==
    LET r == RegistroField_clean(name, raw)
    IN  IF r.error # None THEN AddError(st, name, r.error)
        ELSE RegistroHook(Put(st, name, r.value), name)

\* A slip: the loop stopped at the first field that fails.
RECURSIVE RegistroCleanFields_shortcircuit(_, _, _)
RegistroCleanFields_shortcircuit(st, names, data) ==
    IF names = <<>> \/ DOMAIN st.errors # {} THEN st
    ELSE RegistroCleanFields_shortcircuit(
             RegistroCleanField(st, names[1], data[names[1]]), Tail(names), data)

\* _clean_fields for RegistroForm
RECURSIVE RegistroCleanFields(_, _, _)
RegistroCleanFields(st, names, data) ==
    IF names = <<>> THEN st
    ELSE RegistroCleanFields(
             RegistroCleanField(st, names[1], data[names[1]]), Tail(names), data)

\* _post_clean for RegistroForm: the model's uniqueness check on the fields
\* that passed, then the password validators
RegistroPostClean(st, stored) ==
    LET u == IF /\ "username" \in DOMAIN st.cleaned_data
                /\ st.cleaned_data["username"] \in stored
             THEN AddError(Log(st, "validate_unique"), "username", "unique")
             ELSE Log(st, "validate_unique")
    IN  IF "password2" \in DOMAIN u.cleaned_data
        THEN IF u.cleaned_data["password2"] \in WeakPasswords
             THEN AddError(Log(u, "validate_password"), "password2", "password_too_weak")
             ELSE Log(u, "validate_password")
        ELSE u

\* RegistroForm(data).full_clean()
RegistroForm_full_clean(data, stored) ==
    RegistroPostClean(RegistroCleanFields(CleanState0, RegistroFields, data), stored)

(***************************************************************************)
(* EditarUsuarioForm                                                       *)
(***************************************************************************)
EditarFields == <<"first_name", "last_name", "email">>

\* EditarUsuarioForm.clean_first_name
EditarUsuarioForm_clean_first_name(cleaned_data) ==
    capitalize(cleaned_data["first_name"])

\* EditarUsuarioForm.clean_last_name
EditarUsuarioForm_clean_last_name(cleaned_data) ==
    capitalize(cleaned_data["last_name"])

\* One field of EditarUsuarioForm cleaned by the form field of auth.User's
\* column (all three are blank=True).
EditarField_clean(name, raw) ==
    IF name = "email" THEN EmailField_clean(raw, FALSE)
    ELSE CharField_clean(raw, FALSE, UserNameLength, TRUE)

\* One turn of the loop of _clean_fields for EditarUsuarioForm
EditarCleanField(st, name, raw) ==
    LET r == EditarField_clean(name, raw)
        p == Put(st, name, r.value)
    IN  IF r.error # None THEN AddError(st, name, r.error)
        ELSE IF name = "first_name"
        THEN Log(Put(p, name, EditarUsuarioForm_clean_first_name(p.cleaned_data)),
                 "clean_first_name")
        ELSE IF name = "last_name"
        THEN Log(Put(p, name, EditarUsuarioForm_clean_last_name(p.cleaned_data)),
                 "clean_last_name")
        ELSE p

\* _clean_fields for EditarUsuarioForm
RECURSIVE EditarCleanFields(_, _, _)
EditarCleanFields(st, names, data) ==
    IF names = <<>> THEN st
    ELSE EditarCleanFields(
             EditarCleanField(st, names[1], data[names[1]]), Tail(names), data)

\* EditarUsuarioForm(data, instance=user).full_clean()
EditarUsuarioForm_full_clean(data) ==
    EditarCleanFields(CleanState0, EditarFields, data)

(***************************************************************************)
(* SpecUsuario: one submission per request is validated and, when valid,    *)
(* saved.                                                                  *)
(***************************************************************************)
\* 31 times 'a'
LongName == [i \in 1..MaxNameLength + 1 |-> 97]

\* "", "Bo", " bo", "b o", "bo"
UsernameInputs == {<<>>, <<66, 111>>, <<32, 98, 111>>, <<98, 32, 111>>, <<98, 111>>}

\* "", "aN", " a", U+0149, 31 times 'a'
NameInputs == {<<>>, <<97, 78>>, <<32, 97>>, <<329>>, LongName}

\* "", "a@b.o", "ab"
EmailInputs == {<<>>, <<97, 64, 98, 46, 111>>, <<97, 98>>}

\* "a" (weak), "ab"
PasswordInputs == {<<97>>, <<97, 98>>}

RegistroData ==
    [ username   : UsernameInputs, first_name : NameInputs, last_name : NameInputs,
      email      : EmailInputs, password1  : PasswordInputs, password2 : PasswordInputs ]

EditarData ==
    [ first_name : NameInputs, last_name : NameInputs, email : EmailInputs ]

InitUsuario ==
    /\ users = {}
    /\ enviado = [form |-> "None", data |-> EmptyDict]
    /\ resultado = CleanState0
    /\ guardado = FALSE

\* RegistroForm(request.POST).is_valid()
ValidarRegistro(data) ==
    /\ enviado.form = "None"
    /\ enviado' = [form |-> "RegistroForm", data |-> data]
    /\ resultado' = RegistroForm_full_clean(data, users)
    /\ guardado' = FALSE
    /\ UNCHANGED <<users, textoVars, viajeVars, pilotoVars>>

\* EditarUsuarioForm(request.POST, instance=user).is_valid()
ValidarEdicion(data) ==
    /\ enviado.form = "None"
    /\ enviado' = [form |-> "EditarUsuarioForm", data |-> data]
    /\ resultado' = EditarUsuarioForm_full_clean(data)
    /\ guardado' = FALSE
    /\ UNCHANGED <<users, textoVars, viajeVars, pilotoVars>>

\* form.save(): ModelForm.save raises ValueError when the form has errors
Guardar ==
    /\ enviado.form # "None"
    /\ ~guardado
    /\ DOMAIN resultado.errors = {}
    /\ guardado' = TRUE
    /\ users' = IF enviado.form = "RegistroForm"
                THEN users \cup {resultado.cleaned_data["username"]}
                ELSE users
    /\ UNCHANGED <<enviado, resultado, textoVars, viajeVars, pilotoVars>>

\* The request ends: the form object is discarded.
Responder ==
    /\ enviado.form # "None"
    /\ enviado' = [form |-> "None", data |-> EmptyDict]
    /\ resultado' = CleanState0
    /\ guardado' = FALSE
    /\ UNCHANGED <<users, textoVars, viajeVars, pilotoVars>>

NextUsuario ==
    \/ \E data \in RegistroData : ValidarRegistro(data)
    \/ \E data \in EditarData : ValidarEdicion(data)
    \/ Guardar
    \/ Responder

(***************************************************************************)
(* Specifications                                                          *)
(***************************************************************************)
IdleTexto ==
    /\ texto = <<>>
    /\ previo = <<>>
    /\ pasadas = 0
    /\ modo = "capitalize"

IdleViaje ==
    /\ guias = {}
    /\ guia_blank = TRUE
    /\ form = NoForm

IdlePiloto ==
    /\ avatars_dir = [ok |-> TRUE, names |-> <<>>]
    /\ piloto = NoOutcome
    /\ pilotoPrev = NoOutcome
    /\ avatarResult = NoResult

IdleUsuario == InitUsuario

Init == InitViaje /\ IdleTexto /\ IdlePiloto /\ IdleUsuario

Next == NextViaje

\* GuiaForm and ViajeForm built while guide records come and go
Spec == Init /\ [][Next]_vars

InitSpecTexto == InitTexto /\ IdleViaje /\ IdlePiloto /\ IdleUsuario

NextTexto ==
    \/ Capitalizar
    \/ Minusculas

\* The text normalisers applied repeatedly to every short text
SpecTexto == InitSpecTexto /\ [][NextTexto]_vars

InitSpecPiloto == InitPiloto /\ IdleTexto /\ IdleViaje /\ IdleUsuario

\* PilotoForm built while the avatars directory changes
SpecPiloto == InitSpecPiloto /\ [][NextPiloto]_vars

InitSpecAvatar == InitAvatar /\ IdleTexto /\ IdleViaje /\ IdleUsuario

\* PilotoForm built over a given directory and then validated
SpecAvatar == InitSpecAvatar /\ [][NextAvatar]_vars

InitSpecUsuario == InitUsuario /\ IdleTexto /\ IdleViaje /\ IdlePiloto

\* RegistroForm and EditarUsuarioForm validated and saved
SpecUsuario == InitSpecUsuario /\ [][NextUsuario]_vars

(***************************************************************************)
(* Properties                                                              *)
(***************************************************************************)
HasClass(f) == "class" \in DOMAIN f.attrs /\ f.attrs["class"] = "form-control"

\* C1: in a constructed ViajeForm every field except pilotos has widget
\* attribute class = "form-control"; pilotos has id = "id_pilotos" and no
\* class attribute; exactly one field is exempt from the class rule.
C1_ViajeExemptsPilotos ==
    form.cls = "ViajeForm" =>
        /\ \A n \in Range(form.order) \ {"pilotos"} : HasClass(form.fields[n])
        /\ "id" \in DOMAIN form.fields["pilotos"].attrs
        /\ form.fields["pilotos"].attrs["id"] = "id_pilotos"
        /\ "class" \notin DOMAIN form.fields["pilotos"].attrs
        /\ Cardinality({n \in Range(form.order) : ~HasClass(form.fields[n])}) = 1

Outcomes == {piloto, pilotoPrev}

Built(o) == o.form.cls = "PilotoForm"

\* C2 as stated: every field of a constructed PilotoForm carries widget
\* attribute class = "form-control".
C2_PilotoAllStyled ==
    \A o \in Outcomes :
        Built(o) => \A n \in Range(o.form.order) : HasClass(o.form.fields[n])

\* C2 as amended: a constructed PilotoForm has its seven fields in the
\* declared order and none of them carries a class attribute; construction
\* only fills in the avatar choices.
C2_PilotoNoClass ==
    \A o \in Outcomes :
        Built(o) =>
            /\ o.form.order = PilotoMetaFields
            /\ \A n \in Range(o.form.order) :
                   "class" \notin DOMAIN o.form.fields[n].attrs
            /\ \A n \in Range(o.form.order) \ {"avatar"} :
                   o.form.fields[n] = PilotoBaseFields[n]

C2_Witness ==
    /\ Built(piloto)
    /\ Len(piloto.form.fields["avatar"].choices) = 2

AvatarChoices(o) == o.form.fields["avatar"].choices

\* "b.png", "a.png", "C.png"
ExampleListing == <<Png(<<98>>), Png(<<97>>), Png(<<67>>)>>

\* C3: the avatar choices of a constructed PilotoForm are the file names of
\* the listing it was built from, none added or dropped, in strictly
\* ascending code-point order, each as (value, label) with value = label;
\* the listing b.png, a.png, C.png gives C.png, a.png, b.png; two
\* constructions over different sets of files have different choices.
C3_AvatarChoicesSorted ==
    /\ \A o \in Outcomes :
         Built(o) =>
            LET ch == AvatarChoices(o)
            IN  /\ Len(ch) = Len(o.listing)
                /\ {ch[i][1] : i \in 1..Len(ch)} = Range(o.listing)
                /\ \A i \in 1..Len(ch) : ch[i][2] = ch[i][1]
                /\ \A i, j \in 1..Len(ch) : i < j => StrLess(ch[i][1], ch[j][1])
                /\ o.listing = ExampleListing =>
                       ch = << <<Png(<<67>>), Png(<<67>>)>>,
                               <<Png(<<97>>), Png(<<97>>)>>,
                               <<Png(<<98>>), Png(<<98>>)>> >>
    /\ (Built(piloto) /\ Built(pilotoPrev)
          /\ Range(piloto.listing) # Range(pilotoPrev.listing))
       => AvatarChoices(piloto) # AvatarChoices(pilotoPrev)

C3_Witness ==
    /\ Built(piloto)
    /\ Built(pilotoPrev)
    /\ piloto.listing = ExampleListing
    /\ pilotoPrev.listing = <<Png(<<97, 98>>), Png(<<97>>)>>
    /\ AvatarChoices(pilotoPrev)[1][1] = Png(<<97>>)

\* C4: a PilotoForm constructed while the avatars directory cannot be listed
\* raises the listing error to the caller and yields no form object (so no
\* field, and no field error, exists).
C4_ListingErrorPropagates ==
    \A o \in Outcomes :
        ~o.dir_ok =>
            /\ o.raised = "OSError"
            /\ o.form = NoForm

C4_Witness ==
    /\ ~piloto.dir_ok
    /\ piloto.raised = "OSError"
    /\ Built(pilotoPrev)

EmptyDirValidated ==
    /\ Built(piloto)
    /\ piloto.listing = <<>>
    /\ avatarResult.done

\* C5 as stated: with an empty listing the choice set is empty and every
\* submitted avatar value fails with invalid_choice.
C5_EmptyDirAlwaysInvalidChoice ==
    EmptyDirValidated =>
        /\ AvatarChoices(piloto) = <<>>
        /\ avatarResult.error = "invalid_choice"

\* C5 as amended: with an empty listing the choice set is empty and no
\* submission validates; a non-empty avatar value fails with
\* invalid_choice, an empty or missing one with required.
C5_EmptyDirNeverValid ==
    EmptyDirValidated =>
        /\ AvatarChoices(piloto) = <<>>
        /\ avatarResult.error # None
        /\ avatarResult.error =
             (IF avatarResult.data.present /\ avatarResult.data.value # <<>>
              THEN "invalid_choice" ELSE "required")

C5_Witness ==
    /\ EmptyDirValidated
    /\ avatarResult.data = [present |-> TRUE, value |-> Png(<<97>>)]
    /\ avatarResult.error = "invalid_choice"

\* C6: in a constructed ViajeForm the empty label of guia is "Aún sin
\* asignar" exactly when no guide record existed at construction and
\* "Seleccione una guía" exactly when one did; guia is required or not as
\* the model says, whichever label was chosen.
C6_GuiaEmptyLabel ==
    form.cls = "ViajeForm" =>
        /\ form.fields["guia"].empty_label = "Aún sin asignar"
             <=> form.built_with = {}
        /\ form.fields["guia"].empty_label = "Seleccione una guía"
             <=> form.built_with # {}
        /\ form.fields["guia"].required = ~guia_blank

C6_Witness ==
    /\ form.cls = "ViajeForm"
    /\ form.built_with # {}
    /\ guias = {}
    /\ form.fields["guia"].empty_label = "Seleccione una guía"

\* C10: in a constructed ViajeForm activo is a Select whose choices are
\* exactly (True, "Activo"), (False, "Borrador") in that order, in place of
\* the model field's default widget; it carries class = "form-control"; the
\* field order is still the declared one, activo ninth.
C10_ActivoRebuilt ==
    form.cls = "ViajeForm" =>
        /\ form.fields["activo"].widget = "Select"
        /\ form.fields["activo"].widget # DefaultWidget(ViajeSchema["activo"])
        /\ form.fields["activo"].choices =
             << <<TRUE, "Activo">>, <<FALSE, "Borrador">> >>
        /\ HasClass(form.fields["activo"])
        /\ form.order = ViajeMetaFields
        /\ form.order[9] = "activo"

C10_Witness ==
    /\ form.cls = "ViajeForm"
    /\ form.fields["activo"].label = "Estado"
    /\ Len(form.fields["activo"].choices) = 2

Valid == DOMAIN resultado.errors = {}

Registro == enviado.form = "RegistroForm"

Edicion == enviado.form = "EditarUsuarioForm"

Ran(step) == step \in Range(resultado.trace)

\* every occurrence of step a in the trace is before every occurrence of b
Before(a, b) ==
    \A i, j \in 1..Len(resultado.trace) :
        (resultado.trace[i] = a /\ resultado.trace[j] = b) => i < j

NormSteps == {"clean_username", "clean_first_name", "clean_last_name"}

CheckSteps == {"clean_password2", "validate_unique", "validate_password"}

\* C7 as stated: in RegistroForm the normalisation runs after the
\* uniqueness and password checks; a valid result has username =
\* lower(submitted), first_name / last_name = capitalize(submitted);
\* EditarUsuarioForm capitalises the same way and returns only first_name,
\* last_name and email.
C7_NormalizedAfterChecks ==
    /\ (Registro /\ Valid) =>
          /\ resultado.cleaned_data["username"] = lower(enviado.data["username"])
          /\ resultado.cleaned_data["first_name"] = capitalize(enviado.data["first_name"])
          /\ resultado.cleaned_data["last_name"] = capitalize(enviado.data["last_name"])
          /\ \A c \in CheckSteps, n \in NormSteps : Ran(c) /\ Ran(n) /\ Before(c, n)
    /\ (Edicion /\ Valid) =>
          /\ resultado.cleaned_data["first_name"] = capitalize(enviado.data["first_name"])
          /\ resultado.cleaned_data["last_name"] = capitalize(enviado.data["last_name"])
          /\ DOMAIN resultado.cleaned_data = {"first_name", "last_name", "email"}

\* C7 as amended: in RegistroForm each normalisation runs in its field's
\* clean hook, on the value the field's own cleaning left (surrounding
\* whitespace stripped), and before the password-match, uniqueness and
\* password-strength checks, so uniqueness is decided on the normalised
\* username; every cleaned value present, and so every value of a valid
\* result, is username = lower(strip(submitted)), first_name / last_name =
\* capitalize(strip(submitted)); EditarUsuarioForm capitalises the stripped
\* names the same way and a valid result holds only first_name, last_name
\* and email.
C7_NormalizedInFieldHooks ==
    /\ Registro =>
          /\ "username" \in DOMAIN resultado.cleaned_data =>
                resultado.cleaned_data["username"]
                  = lower(strip(enviado.data["username"]))
          /\ \A n \in {"first_name", "last_name"} :
                n \in DOMAIN resultado.cleaned_data =>
                   resultado.cleaned_data[n] = capitalize(strip(enviado.data[n]))
          /\ Valid => DOMAIN resultado.cleaned_data = Range(RegistroFields)
          /\ \A c \in CheckSteps, n \in NormSteps : Before(n, c)
          /\ Valid => \A s \in CheckSteps \cup NormSteps : Ran(s)
          /\ (~guardado /\ "unique" \in Range(Get(resultado.errors, "username", <<>>)))
                => lower(strip(enviado.data["username"])) \in users
    /\ Edicion =>
          /\ \A n \in {"first_name", "last_name"} :
                n \in DOMAIN resultado.cleaned_data =>
                   resultado.cleaned_data[n] = capitalize(strip(enviado.data[n]))
          /\ Valid => DOMAIN resultado.cleaned_data = {"first_name", "last_name", "email"}

\* "Bo" as username and " a" as first name give "bo" and "A"
C7_Witness ==
    /\ Registro
    /\ Valid
    /\ enviado.data["username"] = <<66, 111>>
    /\ enviado.data["first_name"] = <<32, 97>>
    /\ resultado.cleaned_data["username"] = <<98, 111>>
    /\ resultado.cleaned_data["first_name"] = <<65>>

\* C8: normalising a normalised value changes nothing:
\* capitalize(capitalize(s)) = capitalize(s), lower(lower(s)) = lower(s).
C8_NormalizeIdempotent ==
    pasadas = 2 => texto = previo

FormFields == IF Registro THEN RegistroFields ELSE EditarFields

\* the field fails its own cleaning, whatever the other fields hold
FieldFails(n) ==
    IF Registro THEN RegistroField_clean(n, enviado.data[n]).error # None
    ELSE EditarField_clean(n, enviado.data[n]).error # None

====
